---- MODULE Spec2Model ----
(***************************************************************************)
(* Single-node proof-of-work ledger of src/blockchain/Blockchain.py (and    *)
(* its translated twin Blockchain_demo.py): transactions, blocks, Merkle    *)
(* root, mining and chain validation.                                       *)
(*                                                                          *)
(* Abstractions, all stated here once:                                      *)
(*  - a byte string is a sequence of natural "code units";                  *)
(*  - SHA-256 is a fixed-width digest function: a hexdigest is a sequence   *)
(*    of HexLen hex digits (0..15) instead of 64, computed by a             *)
(*    multiplicative rolling hash.  The digest is NOT injective, as the     *)
(*    real one is not;                                                      *)
(*  - DIFFICULTY_PREFIX is scaled with the digest width (one '0' of 4       *)
(*    digits instead of five '0' of 64);                                    *)
(*  - an amount is an integer number of hundredths (625 is 6.25);           *)
(*  - a timestamp is an integer number of clock ticks, TicksPerMicro ticks  *)
(*    to the microsecond (a float of time.time() resolves about a quarter   *)
(*    of a microsecond), so that round(timestamp, 6) is a real rounding.    *)
(***************************************************************************)
EXTENDS Integers, Sequences, FiniteSets, TLC

VARIABLES chain,      \* Blockchain.chain: sequence of blocks
          mem_pool,   \* Blockchain.mem_pool: sequence of transactions
          op,         \* the ledger operation that ran last
          arg,        \* its arguments
          ret,        \* its return value
          accepted,   \* history: every transaction add_transaction took
          leaves,     \* merkle_root harness: the caller's list
          root,       \* merkle_root harness: the returned root
          call        \* the locals of a mine call in progress, or None

vars == <<chain, mem_pool, op, arg, ret, accepted, leaves, root, call>>

----------------------------------------------------------------------------
(* Bounds *)

MaxChain == 3        \* blocks in the chain, genesis included
MaxAccepted == 2     \* add_transaction calls in one run
MaxLeaves == 5       \* leaves given to merkle_root in the harness

----------------------------------------------------------------------------
(* Digest width and clock resolution *)

HexLen == 4
HashMod == 65536     \* 16^HexLen
TicksPerMicro == 3

----------------------------------------------------------------------------
(* Strings as code units *)

\* str.encode(): the code unit standing for the bytes of a known string
StrCode(s) ==
    CASE s = "network" -> 101
      [] s = "satoshi" -> 102
      [] s = "Alice" -> 103
      [] s = "Bob" -> 104
      [] s = "Carol" -> 105
      [] s = "Dave" -> 106
      [] s = "miner1" -> 107
      [] s = "miner2" -> 108

\* the bytes of a JSON key, keys being the dataclass field names
KeyCode(k) ==
    CASE k = "amount" -> 201
      [] k = "recipient" -> 202
      [] k = "sender" -> 203
      [] k = "index" -> 204
      [] k = "merkle_root" -> 205
      [] k = "nonce" -> 206
      [] k = "prev_hash" -> 207
      [] k = "timestamp" -> 208

\* json.dumps of a number: a sign unit when negative, then the magnitude
NumBytes(n) == IF n < 0 THEN <<45, 0 - n>> ELSE <<n>>

----------------------------------------------------------------------------
(* Hashing *)

\* the digest value after the bytes from position i on are fed to h, one
\* byte at a time (functions take their arguments as values, so the byte
\* string is built once)
Roll(h, bytes, i) ==
    LET fold[b \in {bytes}] ==
            LET acc[k \in (i - 1)..Len(b)] ==
                    IF k < i THEN h
                    ELSE (acc[k - 1] * 33 + b[k] + 1) % HashMod
            IN  acc[Len(b)]
    IN  fold[bytes]

\* the HexLen hex digits of a digest value, most significant first
HexDigits(v) ==
    <<(v \div 4096) % 16, (v \div 256) % 16, (v \div 16) % 16, v % 16>>

\* sha256(x).hexdigest()
sha256(x) == HexDigits(Roll(5381, x, 1))

\* bytes.fromhex(s): two hex digits make one byte
fromhex(s) == [i \in 1..(Len(s) \div 2) |-> 16 * s[2 * i - 1] + s[2 * i]]

\* str.startswith
startswith(s, p) == Len(p) <= Len(s) /\ SubSeq(s, 1, Len(p)) = p

DIFFICULTY_PREFIX == <<0>>

\* one hex character of a digest as the byte str.encode() gives it
HexChar(x) == IF x < 10 THEN 48 + x ELSE 87 + x

\* the bytes of a hex digest inside a JSON string
HexBytes(d) == [i \in 1..Len(d) |-> HexChar(d[i])]

\* json.dumps(asdict(tx), sort_keys=True, separators=(",", ":")).encode():
\* the keys in sorted order, each followed by its value
tx_json(t) ==
    <<KeyCode("amount")>> \o NumBytes(t.amount)
        \o <<KeyCode("recipient"), StrCode(t.recipient),
             KeyCode("sender"), StrCode(t.sender)>>

\* json.dumps(header_dict, sort_keys=True, separators=(",", ":")).encode()
header_json(h) ==
    <<KeyCode("index")>> \o NumBytes(h.index)
        \o <<KeyCode("merkle_root")>> \o HexBytes(h.merkle_root)
        \o <<KeyCode("nonce")>> \o NumBytes(h.nonce)
        \o <<KeyCode("prev_hash")>> \o HexBytes(h.prev_hash)
        \o <<KeyCode("timestamp")>> \o NumBytes(h.timestamp)

----------------------------------------------------------------------------
(* Merkle root *)

\* for i in range(0, len(layer), 2): nxt.append(sha256(left + right))
RECURSIVE pair_layer(_, _)
pair_layer(layer, i) ==
    IF i > Len(layer) THEN <<>>
    ELSE <<sha256(fromhex(layer[i]) \o fromhex(layer[i + 1]))>>
             \o pair_layer(layer, i + 2)

\* mutant of pad_layer: an odd layer padded with the digest of the empty
\* byte string
pad_layer_empty_digest(layer) ==
    IF Len(layer) % 2 = 1 THEN Append(layer, sha256(<<>>)) ELSE layer

\* mutant of pad_layer: the first element duplicated instead of the last
pad_layer_first(layer) ==
    IF Len(layer) % 2 = 1 THEN Append(layer, layer[1]) ELSE layer

\* if len(layer) % 2 == 1: layer.append(layer[-1])
pad_layer(layer) ==
    IF Len(layer) % 2 = 1 THEN Append(layer, layer[Len(layer)]) ELSE layer

\* while len(layer) > 1: ...; return layer[0]
RECURSIVE merkle_loop(_)
merkle_loop(layer) ==
    IF Len(layer) > 1 THEN merkle_loop(pair_layer(pad_layer(layer), 1))
    ELSE layer[1]

merkle_root(hashes) ==
    IF hashes = <<>> THEN sha256(<<>>) ELSE merkle_loop(hashes)

----------------------------------------------------------------------------
(* Transaction and Block *)

Transaction(sender, recipient, amount) ==
    [sender |-> sender, recipient |-> recipient, amount |-> amount]

\* Transaction.hash: jhash(asdict(self))
tx_hash(t) == sha256(tx_json(t))

Block(index, timestamp, prev_hash, root_, nonce, transactions) ==
    [index |-> index, timestamp |-> timestamp, prev_hash |-> prev_hash,
     merkle_root |-> root_, nonce |-> nonce, transactions |-> transactions]

\* round(timestamp, 6): ticks to the nearest microsecond
Round6(ts) == (2 * ts + TicksPerMicro) \div (2 * TicksPerMicro)

header_dict(b) ==
    [index |-> b.index, timestamp |-> Round6(b.timestamp),
     prev_hash |-> b.prev_hash, merkle_root |-> b.merkle_root,
     nonce |-> b.nonce]

\* Block.hash
block_hash(b) == sha256(header_json(header_dict(b)))

\* [t.hash() for t in txs]
tx_hashes(txs) == [i \in 1..Len(txs) |-> tx_hash(txs[i])]

----------------------------------------------------------------------------
(* Blockchain *)

ZeroHash == [i \in 1..HexLen |-> 0]      \* "0" * 64
REWARD == 625                            \* amount=6.25
GENESIS_AMOUNT == 5000                   \* amount=50.0

None == [kind |-> "None"]
NoArg == [kind |-> "none"]

\* mutant of create_genesis: the root taken before the transaction is
\* in the list
create_genesis_empty_root(now) ==
    LET genesis_tx == Transaction("network", "satoshi", GENESIS_AMOUNT)
    IN  Block(0, now, ZeroHash, merkle_root(<<>>), 0, <<genesis_tx>>)

create_genesis(now) ==
    LET genesis_tx == Transaction("network", "satoshi", GENESIS_AMOUNT)
        root_ == merkle_root(<<tx_hash(genesis_tx)>>)
    IN  Block(0, now, ZeroHash, root_, 0, <<genesis_tx>>)

last_block(c) == c[Len(c)]

\* mutant of add_transaction: an amount that is not positive is refused
add_transaction_positive_only(pool, sender, recipient, amount) ==
    IF amount <= 0 THEN pool
    ELSE Append(pool, Transaction(sender, recipient, amount))

\* the effect of add_transaction on the mempool
add_transaction(pool, sender, recipient, amount) ==
    Append(pool, Transaction(sender, recipient, amount))

\* mutants of candidate_txs: the reward put last; the last pending
\* transaction left out of the block
candidate_txs_reward_last(miner_address, pool) ==
    pool \o <<Transaction("network", miner_address, REWARD)>>

candidate_txs_drop_last(miner_address, pool) ==
    <<Transaction("network", miner_address, REWARD)>>
        \o SubSeq(pool, 1, Len(pool) - 1)

\* txs = [reward_tx] + self.mem_pool
candidate_txs(miner_address, pool) ==
    <<Transaction("network", miner_address, REWARD)>> \o pool

\* mutant of candidate_block: the Merkle root taken over the mempool
\* alone, without the reward
candidate_block_root_of_pool(c, pool, miner_address, now) ==
    Block(Len(c), now, block_hash(last_block(c)),
          merkle_root(tx_hashes(pool)), 0,
          <<Transaction("network", miner_address, REWARD)>> \o pool)

\* mutant of candidate_block: the index counts from one, index=len(chain)+1
candidate_block_index_from_one(c, pool, miner_address, now) ==
    LET txs == candidate_txs(miner_address, pool)
    IN  Block(Len(c) + 1, now, block_hash(last_block(c)),
              merkle_root(tx_hashes(txs)), 0, txs)

\* the block mine builds before the search, nonce=0
candidate_block(c, pool, miner_address, now) ==
    LET txs == candidate_txs(miner_address, pool)
    IN  Block(Len(c), now, block_hash(last_block(c)),
              merkle_root(tx_hashes(txs)), 0, txs)

\* for n in range(max_tries): block.nonce = n; test the hash.
\* found: the loop hit the prefix with block.nonce = n; otherwise it ran
\* out and the candidate is dropped.
\* mutant of pow_search: the bound is inclusive, nonce max_tries is tested too
RECURSIVE pow_search_inclusive(_, _, _)
pow_search_inclusive(block, n, max_tries) ==
    IF n > max_tries THEN [found |-> FALSE]
    ELSE IF startswith(block_hash([block EXCEPT !.nonce = n]),
                       DIFFICULTY_PREFIX)
         THEN [found |-> TRUE, block |-> [block EXCEPT !.nonce = n]]
         ELSE pow_search_inclusive(block, n + 1, max_tries)

RECURSIVE pow_search(_, _, _)
pow_search(block, n, max_tries) ==
    IF n >= max_tries THEN [found |-> FALSE]
    ELSE IF startswith(block_hash([block EXCEPT !.nonce = n]),
                       DIFFICULTY_PREFIX)
         THEN [found |-> TRUE, block |-> [block EXCEPT !.nonce = n]]
         ELSE pow_search(block, n + 1, max_tries)

\* mutants of mine_found: the mempool kept; the last block overwritten
mine_found_keep_pool(c, pool, block) ==
    [chain |-> Append(c, block), mem_pool |-> pool,
     ret |-> [kind |-> "Block", block |-> block]]

mine_found_overwrite(c, pool, block) ==
    [chain |-> IF Len(c) > 1 THEN [c EXCEPT ![Len(c)] = block]
               ELSE Append(c, block),
     mem_pool |-> <<>>,
     ret |-> [kind |-> "Block", block |-> block]]

\* on success: self.chain.append(block); self.mem_pool = []; return block
mine_found(c, pool, block) ==
    [chain |-> Append(c, block), mem_pool |-> <<>>,
     ret |-> [kind |-> "Block", block |-> block]]

\* mutant of mine_exhausted: the mempool cleared on failure too
mine_exhausted_clear_pool(c, pool) ==
    [chain |-> c, mem_pool |-> <<>>, ret |-> None]

\* after the loop: return None
mine_exhausted(c, pool) ==
    [chain |-> c, mem_pool |-> pool, ret |-> None]

\* Blockchain.mine: the ledger and the return value after the call
mine(c, pool, miner_address, max_tries, now) ==
    LET cand == candidate_block(c, pool, miner_address, now)
        r == pow_search(cand, 0, max_tries)
    IN  IF r.found THEN mine_found(c, pool, r.block)
        ELSE mine_exhausted(c, pool)

\* mutant of link_ok: the linkage check left out
link_ok_skipped(c, i) == TRUE

\* the three checks valid_chain makes on block i (1-based position i + 1)
link_ok(c, i) == c[i + 1].prev_hash = block_hash(c[i])
\* mutant of pow_ok: the proof-of-work check left out
pow_ok_skipped(c, i) == TRUE
pow_ok(c, i) == startswith(block_hash(c[i + 1]), DIFFICULTY_PREFIX)
root_ok(c, i) ==
    merkle_root(tx_hashes(c[i + 1].transactions)) = c[i + 1].merkle_root

\* for i in range(1, len(self.chain)): return False at the first failure
RECURSIVE valid_from(_, _)
valid_from(c, i) ==
    IF i >= Len(c) THEN TRUE
    ELSE IF ~link_ok(c, i) THEN FALSE
    ELSE IF ~pow_ok(c, i) THEN FALSE
    ELSE IF ~root_ok(c, i) THEN FALSE
    ELSE valid_from(c, i + 1)

\* mutant of valid_chain: the Merkle check made on the genesis block too
valid_chain_checks_genesis(c) ==
    IF Len(c) >= 1 /\ merkle_root(tx_hashes(c[1].transactions)) # c[1].merkle_root
    THEN FALSE
    ELSE valid_from(c, 1)

valid_chain(c) == valid_from(c, 1)

\* mutant of block_view: the hash field repeats the link to the previous block
block_view_prev_as_hash(b) ==
    [index |-> b.index, timestamp |-> Round6(b.timestamp),
     prev_hash |-> b.prev_hash, merkle_root |-> b.merkle_root,
     nonce |-> b.nonce, hash |-> b.prev_hash,
     transactions |-> b.transactions]

\* one entry of to_dict
block_view(b) ==
    [index |-> b.index, timestamp |-> Round6(b.timestamp),
     prev_hash |-> b.prev_hash, merkle_root |-> b.merkle_root,
     nonce |-> b.nonce, hash |-> block_hash(b),
     transactions |-> b.transactions]

to_dict(c) == [i \in 1..Len(c) |-> block_view(c[i])]

----------------------------------------------------------------------------
(* Inputs *)

\* time.time(): two ticks that round to different microseconds
Timestamps == {1, 2}
Miners == {"miner1", "miner2"}
\* max_tries: negative, zero, and enough for some searches to succeed
TriesValues == {-1, 0, 4}

\* the transactions submitted: one equal to miner1's reward, a negative
\* amount and a zero amount
TxInputs ==
    {Transaction("network", "miner1", REWARD),
     Transaction("Bob", "Alice", -70), Transaction("Carol", "Dave", 0)}

----------------------------------------------------------------------------
(* The ledger, one operation at a time *)

Init ==
    /\ \E now \in Timestamps : chain = <<create_genesis(now)>>
    /\ mem_pool = <<>>
    /\ op = "init"
    /\ arg = NoArg
    /\ ret = None
    /\ accepted = <<>>
    /\ leaves = <<>>
    /\ root = <<>>
    /\ call = None

AddTransaction ==
    /\ Len(accepted) < MaxAccepted
    /\ \E t \in TxInputs :
          /\ mem_pool' = add_transaction(mem_pool, t.sender, t.recipient,
                                         t.amount)
          /\ accepted' = Append(accepted, t)
          /\ arg' = [kind |-> "tx", tx |-> t]
    /\ op' = "add_transaction"
    /\ ret' = None
    /\ UNCHANGED <<chain, leaves, root, call>>

Mine ==
    /\ Len(chain) < MaxChain
    /\ \E miner \in Miners, tries \in TriesValues, now \in Timestamps :
          LET r == mine(chain, mem_pool, miner, tries, now)
          IN  /\ chain' = r.chain
              /\ mem_pool' = r.mem_pool
              /\ ret' = r.ret
              /\ arg' = [kind |-> "mine", miner_address |-> miner,
                         max_tries |-> tries]
    /\ op' = "mine"
    /\ UNCHANGED <<accepted, leaves, root, call>>

ValidChain ==
    /\ op' = "valid_chain"
    /\ arg' = NoArg
    /\ ret' = [kind |-> "bool", value |-> valid_chain(chain)]
    /\ UNCHANGED <<chain, mem_pool, accepted, leaves, root, call>>

ToDict ==
    /\ op' = "to_dict"
    /\ arg' = NoArg
    /\ ret' = [kind |-> "list", value |-> to_dict(chain)]
    /\ UNCHANGED <<chain, mem_pool, accepted, leaves, root, call>>

Next == AddTransaction \/ Mine \/ ValidChain \/ ToDict

Spec == Init /\ [][Next]_vars

----------------------------------------------------------------------------
(* merkle_root called on its own, as in Merkle_root.py *)

\* mutant of merkle_call: layer = hashes without the copy, so the append
\* that pads the first odd layer lands in the caller's list
merkle_call_aliased(hashes) ==
    [root |-> merkle_root(hashes),
     hashes |-> IF Len(hashes) > 1 THEN pad_layer(hashes) ELSE hashes]

\* layer = hashes[:] works on a copy: the call returns the root and leaves
\* the caller's list as it was
merkle_call(hashes) == [root |-> merkle_root(hashes), hashes |-> hashes]

LeafDigests == {tx_hash(t) : t \in TxInputs}

BoundedSeq(S, n) == UNION {[1..k -> S] : k \in 0..n}

InitMerkle ==
    /\ leaves \in BoundedSeq(LeafDigests, MaxLeaves)
    /\ root = <<>>
    /\ op = "init"
    /\ arg = NoArg
    /\ ret = None
    /\ chain = <<>>
    /\ mem_pool = <<>>
    /\ accepted = <<>>
    /\ call = None

MerkleRoot ==
    /\ op' = "merkle_root"
    /\ LET r == merkle_call(leaves)
       IN  /\ root' = r.root
           /\ leaves' = r.hashes
    /\ UNCHANGED <<chain, mem_pool, arg, ret, accepted, call>>

NextMerkle == MerkleRoot

SpecMerkle == InitMerkle /\ [][NextMerkle]_vars

----------------------------------------------------------------------------
(* valid_chain on stored chains of any content *)

\* self.chain and the fields of its blocks are plain attributes: a stored
\* chain need not come from mine.  The chains below are mined ones with
\* fields of a block overwritten, and then a link written again.
StoredPools ==
    {<<>>, <<Transaction("Bob", "Alice", -70), Transaction("Carol", "Dave", 0)>>}

\* max_tries=2_000_000 for the prefix "00000", about two searches of the
\* expected length: scaled to the one-digit prefix
DefaultTries == 32

RECURSIVE MinedChains(_)
MinedChains(n) ==
    IF n <= 1 THEN {<<create_genesis(now)>> : now \in Timestamps}
    ELSE LET S == MinedChains(n - 1)
         IN  S \cup {mine(c, pool, "miner1", DefaultTries, now).chain :
                        c \in S, pool \in StoredPools, now \in Timestamps}

\* block i of c with one field overwritten
Rewrites(c, i) ==
    LET b == c[i]
        txs == b.transactions
    IN  {[b EXCEPT !.prev_hash = ZeroHash],
         [b EXCEPT !.merkle_root = ZeroHash],
         [b EXCEPT !.merkle_root = merkle_root(tx_hashes(<<>>))],
         [b EXCEPT !.timestamp = b.timestamp + 1],
         [b EXCEPT !.index = b.index + 1],
         [b EXCEPT !.transactions = <<>>],
         [b EXCEPT !.transactions = Tail(txs)],
         [b EXCEPT !.transactions = Append(txs, txs[Len(txs)])]}
        \cup {[b EXCEPT !.nonce = v] : v \in 0..3}

Rewritten(c) ==
    UNION {{[c EXCEPT ![i] = b] : b \in Rewrites(c, i)} : i \in 1..Len(c)}

\* block i linked again to the block stored before it
Relinked(c) ==
    {[c EXCEPT ![i].prev_hash = block_hash(c[i - 1])] : i \in 2..Len(c)}

StoredChains ==
    LET M == MinedChains(MaxChain)
        R == UNION {Rewritten(c) : c \in M}
    IN  {<<>>} \cup M \cup R \cup UNION {Relinked(c) : c \in R}

InitStored ==
    /\ chain \in StoredChains
    /\ mem_pool = <<>>
    /\ op = "init"
    /\ arg = NoArg
    /\ ret = None
    /\ accepted = <<>>
    /\ leaves = <<>>
    /\ root = <<>>
    /\ call = None

NextStored == ValidChain

SpecStored == InitStored /\ [][NextStored]_vars

----------------------------------------------------------------------------
(* mine statement by statement, with add_transaction calls in between *)

\* mutant of range_exhausted: the loop runs once more, nonce max_tries included
range_exhausted_inclusive(n, max_tries) == n > max_tries

\* for nonce in range(max_tries): no value is left once nonce reaches
\* max_tries (at once when max_tries <= 0)
range_exhausted(n, max_tries) == n >= max_tries

\* mutant of mine_return: on success the transactions that arrived after
\* the candidate was built stay in the mempool
mine_return_keep_late(c, pool, block) ==
    [chain |-> Append(c, block),
     mem_pool |-> SubSeq(pool, Len(block.transactions), Len(pool)),
     ret |-> [kind |-> "Block", block |-> block]]

\* self.chain.append(block); self.mem_pool = []; return block, on the
\* ledger as it is when the loop finds the nonce
mine_return(c, pool, block) == mine_found(c, pool, block)

\* reward_tx, txs, tx_hashes, block = Block(..., nonce=0, transactions=txs)
MineBegin ==
    /\ call = None
    /\ Len(chain) < MaxChain
    /\ \E miner \in Miners, tries \in TriesValues, now \in Timestamps :
          call' = [block |-> candidate_block(chain, mem_pool, miner, now),
                   nonce |-> 0, miner_address |-> miner, max_tries |-> tries]
    /\ UNCHANGED <<chain, mem_pool, op, arg, ret, accepted, leaves, root>>

\* one pass of the loop body whose hash does not start with the prefix
MineMiss ==
    /\ call # None
    /\ ~ range_exhausted(call.nonce, call.max_tries)
    /\ ~ startswith(block_hash([call.block EXCEPT !.nonce = call.nonce]),
                    DIFFICULTY_PREFIX)
    /\ call' = [call EXCEPT !.block.nonce = call.nonce, !.nonce = @ + 1]
    /\ UNCHANGED <<chain, mem_pool, op, arg, ret, accepted, leaves, root>>

\* the pass whose hash starts with the prefix: append, clear, return block
MineHit ==
    /\ call # None
    /\ ~ range_exhausted(call.nonce, call.max_tries)
    /\ LET block == [call.block EXCEPT !.nonce = call.nonce]
       IN  /\ startswith(block_hash(block), DIFFICULTY_PREFIX)
           /\ LET r == mine_return(chain, mem_pool, block)
              IN  /\ chain' = r.chain
                  /\ mem_pool' = r.mem_pool
                  /\ ret' = r.ret
    /\ op' = "mine"
    /\ arg' = [kind |-> "mine", miner_address |-> call.miner_address,
               max_tries |-> call.max_tries]
    /\ call' = None
    /\ UNCHANGED <<accepted, leaves, root>>

\* the loop ran out: return None
MineGiveUp ==
    /\ call # None
    /\ range_exhausted(call.nonce, call.max_tries)
    /\ LET r == mine_exhausted(chain, mem_pool)
       IN  /\ chain' = r.chain
           /\ mem_pool' = r.mem_pool
           /\ ret' = r.ret
    /\ op' = "mine"
    /\ arg' = [kind |-> "mine", miner_address |-> call.miner_address,
               max_tries |-> call.max_tries]
    /\ call' = None
    /\ UNCHANGED <<accepted, leaves, root>>

MineStep == MineMiss \/ MineHit \/ MineGiveUp

NextSteps == AddTransaction \/ MineBegin \/ MineMiss \/ MineHit \/ MineGiveUp

SpecSteps == Init /\ [][NextSteps]_vars

\* a call that is running keeps running: its next statement is executed
SpecStepsFair == SpecSteps /\ WF_vars(MineStep)

----------------------------------------------------------------------------
(* Claims about the ledger *)

MineReturnedBlock == op = "mine" /\ ret.kind = "Block"
MineReturnedNone == op = "mine" /\ ret = None

\* C1: in every state reached by add_transaction and mine calls, whether
\* the mine calls succeed or run out, valid_chain() returns True.
C1_ChainAlwaysValid == valid_chain(chain) = TRUE

\* a chain of two mined blocks, each carrying a submitted transaction, on
\* which valid_chain has just answered True
C1_Witness ==
    /\ Len(chain) = 3
    /\ Len(chain[2].transactions) = 2
    /\ Len(chain[3].transactions) = 2
    /\ op = "valid_chain"
    /\ ret.value = TRUE

\* C3: a mine call that returns None, max_tries <= 0 included, leaves the
\* chain and the mempool exactly as they were before the call.
C3_FailedMineChangesNothing ==
    [][MineReturnedNone' => (chain' = chain /\ mem_pool' = mem_pool)]_vars

\* a search that ran out of nonces (max_tries > 0) with transactions
\* pending, on a chain that already has a mined block
C3_Witness ==
    /\ MineReturnedNone
    /\ arg.max_tries > 0
    /\ mem_pool # <<>>
    /\ Len(chain) >= 2

\* C4: after a mine call that returns a block the mempool is empty, the
\* chain is one block longer than before the call, and the returned block
\* is the last block of the chain.
C4_SuccessfulMineAppendsAndClears ==
    [][MineReturnedBlock' =>
          (/\ mem_pool' = <<>>
           /\ Len(chain') = Len(chain) + 1
           /\ last_block(chain') = ret'.block)]_vars

\* a successful mine that took transactions out of a non-empty mempool
C4_Witness ==
    /\ MineReturnedBlock
    /\ Len(ret.block.transactions) = 3
    /\ mem_pool = <<>>

\* C5: the block appended by a successful mine(miner_address) holds the
\* reward ("network", miner_address, 6.25) first, then the mempool as it
\* was at the call, in order.
C5_RewardFirstThenMempool ==
    [][MineReturnedBlock' =>
          last_block(chain').transactions
              = <<Transaction("network", arg'.miner_address, REWARD)>>
                    \o mem_pool]_vars

\* the mempool already held a transaction equal to the reward, followed by
\* another one: the block repeats the reward at positions 0 and 1
C5_Witness ==
    /\ MineReturnedBlock
    /\ Len(ret.block.transactions) = 3
    /\ ret.block.transactions[2] = ret.block.transactions[1]
    /\ ret.block.transactions[3] # ret.block.transactions[1]

\* C6: across every step of add_transaction, mine, valid_chain and to_dict
\* the old chain is a prefix of the new one with its blocks unchanged, and
\* the chain grows only by one block, only in a successful mine.
C6_ChainAppendOnly ==
    [][/\ Len(chain') >= Len(chain)
       /\ SubSeq(chain', 1, Len(chain)) = chain
       /\ chain' # chain =>
             (MineReturnedBlock' /\ Len(chain') = Len(chain) + 1)]_vars

\* a second block was appended after the first, and to_dict has run
C6_Witness == Len(chain) = 3 /\ op = "to_dict"

\* the submitted transactions the chain holds: every mined block's
\* transactions after its reward, in chain order
RECURSIVE MinedTxs(_, _)
MinedTxs(c, i) ==
    IF i > Len(c) THEN <<>> ELSE Tail(c[i].transactions) \o MinedTxs(c, i + 1)

IsPrefix(s, t) == Len(s) <= Len(t) /\ SubSeq(t, 1, Len(s)) = s

\* C7: with operations run one at a time no accepted transaction is lost:
\* the accepted transactions are, in order and as often as accepted, those
\* in the mined blocks followed by those pending (so each one is in the
\* mempool or in a block), and a transaction leaves the mempool only in a
\* step that appends a block holding the mempool after its reward.
C7_NoTransactionLost ==
    /\ [](accepted = MinedTxs(chain, 2) \o mem_pool)
    /\ [][~IsPrefix(mem_pool, mem_pool') =>
             (/\ chain' = Append(chain, last_block(chain'))
              /\ Tail(last_block(chain').transactions) = mem_pool)]_vars

\* one accepted transaction is in a block and a later one is pending
C7_Witness ==
    /\ Len(accepted) = 2
    /\ Len(chain) >= 2
    /\ MinedTxs(chain, 2) = <<accepted[1]>>
    /\ mem_pool = <<accepted[2]>>

\* C11: add_transaction never rejects: whatever the sender, recipient and
\* amount (zero, negative, equal to a pending transaction), the mempool
\* afterwards is the old one with the new transaction appended, and the
\* chain is unchanged.
C11_AddTransactionAppends ==
    [][op' = "add_transaction" =>
          (/\ mem_pool' = Append(mem_pool, arg'.tx)
           /\ chain' = chain)]_vars

\* a transaction with a non-positive amount was just accepted a second
\* time while its first copy is still pending
C11_Witness ==
    /\ op = "add_transaction"
    /\ arg.tx.amount <= 0
    /\ Len(mem_pool) = 2
    /\ mem_pool[1] = mem_pool[2]
    /\ mem_pool[2] = arg.tx
    /\ accepted = mem_pool

\* C12: valid_chain() and to_dict() are read-only: neither changes the
\* chain or the mempool.  to_dict() returns one entry per block, in chain
\* order; the hash field of an entry is the header digest of its block and
\* its transactions list is the block's transactions in order.
C12_QueriesReadOnly ==
    [][op' \in {"valid_chain", "to_dict"} =>
          (/\ chain' = chain
           /\ mem_pool' = mem_pool
           /\ op' = "to_dict" =>
                (/\ Len(ret'.value) = Len(chain)
                 /\ \A i \in 1..Len(chain) :
                      /\ ret'.value[i].index = chain[i].index
                      /\ ret'.value[i].hash = block_hash(chain[i])
                      /\ ret'.value[i].transactions = chain[i].transactions))]_vars

\* to_dict was just called on a chain of three blocks with a pending
\* transaction; the second block carries the reward and two transfers
C12_Witness ==
    /\ op = "to_dict"
    /\ Len(chain) = 3
    /\ Len(ret.value) = 3
    /\ Len(chain[2].transactions) = 3
    /\ ret.value[2].transactions[3] = chain[2].transactions[3]
    /\ ret.value[3].hash # ret.value[3].prev_hash

\* the nonces below max_tries with which the candidate meets the prefix
GoodNonces(cand, max_tries) ==
    {n \in 0..(max_tries - 1) :
        startswith(block_hash([cand EXCEPT !.nonce = n]), DIFFICULTY_PREFIX)}

Least(S) == CHOOSE n \in S : \A m \in S : n <= m

\* C13: mine searches the nonces 0, 1, 2, ... with index, timestamp,
\* prev_hash and merkle_root fixed.  It succeeds exactly when some nonce in
\* 0..max_tries-1 makes the header digest start with the prefix, the block
\* it appends carries the smallest such nonce, and it returns None exactly
\* when there is none.
C13_SmallestNonceWins ==
    [][op' = "mine" =>
          \E now \in Timestamps :
             LET cand == candidate_block(chain, mem_pool,
                                         arg'.miner_address, now)
                 good == GoodNonces(cand, arg'.max_tries)
             IN  IF good = {}
                 THEN ret' = None /\ chain' = chain
                 ELSE /\ ret' = [kind |-> "Block",
                                 block |-> [cand EXCEPT !.nonce = Least(good)]]
                      /\ chain' = Append(chain, ret'.block)]_vars

\* a search that passed over failing nonces before it found one
C13_Witness ==
    /\ op = "mine"
    /\ ret # None
    /\ ret.block.nonce >= 2
    /\ chain[Len(chain)] = ret.block
    /\ ~ startswith(block_hash([ret.block EXCEPT !.nonce = 0]),
                    DIFFICULTY_PREFIX)

\* C15: in every reachable state the block at position i of the chain
\* (counting from 0) has index i, so no two blocks share an index.
C15_IndexIsPosition ==
    /\ \A i \in 1..Len(chain) : chain[i].index = i - 1
    /\ \A i, j \in 1..Len(chain) :
          chain[i].index = chain[j].index => i = j

\* two blocks mined on top of the genesis block, the last one just now
C15_Witness ==
    /\ Len(chain) = 3
    /\ op = "mine"
    /\ ret # None
    /\ ret.block.index = 2
    /\ chain[2].index = 1

----------------------------------------------------------------------------
(* Tampering with a stored chain *)

\* a digest with one hex digit changed
NearDigests(d) ==
    {[d EXCEPT ![k] = (d[k] + 1) % 16] : k \in 1..Len(d)}
        \cup {[d EXCEPT ![k] = (d[k] + 15) % 16] : k \in 1..Len(d)}

\* digests to write over a stored one: near ones, the zero digest, the
\* empty digest, and the digests the chain itself holds
TamperDigests(c) ==
    {ZeroHash, sha256(<<>>)}
        \cup {block_hash(c[k]) : k \in 1..Len(c)}
        \cup {c[k].merkle_root : k \in 1..Len(c)}

OtherDigests(c, d) == (TamperDigests(c) \cup NearDigests(d)) \ {d}

TamperTimes == 0..3
TamperNonces == 0..8
TamperAmounts == {REWARD, GENESIS_AMOUNT, 0, -70, 120}
TamperNames == {"network", "satoshi", "Alice", "Bob", "Carol", "Dave",
                "miner1", "miner2"}
TamperTxs == TxInputs \cup {Transaction("network", m, REWARD) : m \in Miners}

RemoveAt(s, k) == SubSeq(s, 1, k - 1) \o SubSeq(s, k + 1, Len(s))
InsertAt(s, k, e) == SubSeq(s, 1, k - 1) \o <<e>> \o SubSeq(s, k, Len(s))
SwapAt(s, j, k) == [s EXCEPT ![j] = s[k], ![k] = s[j]]

\* a transaction sequence with one field of one entry changed, or one
\* entry added, removed, or two entries exchanged
TamperedTxs(txs) ==
    ({[txs EXCEPT ![k].sender = v] : k \in 1..Len(txs), v \in TamperNames}
     \cup {[txs EXCEPT ![k].recipient = v] :
              k \in 1..Len(txs), v \in TamperNames}
     \cup {[txs EXCEPT ![k].amount = v] :
              k \in 1..Len(txs), v \in TamperAmounts}
     \cup {InsertAt(txs, k, t) : k \in 1..(Len(txs) + 1), t \in TamperTxs}
     \cup {RemoveAt(txs, k) : k \in 1..Len(txs)}
     \cup {SwapAt(txs, j, k) : j, k \in 1..Len(txs)}) \ {txs}

\* block i of the chain with one stored field changed to another value
TamperedBlocks(c, i) ==
    LET b == c[i]
    IN  {[b EXCEPT !.index = v] : v \in (0..MaxChain) \ {b.index}}
        \cup {[b EXCEPT !.timestamp = v] : v \in TamperTimes \ {b.timestamp}}
        \cup {[b EXCEPT !.prev_hash = v] : v \in OtherDigests(c, b.prev_hash)}
        \cup {[b EXCEPT !.merkle_root = v] :
                 v \in OtherDigests(c, b.merkle_root)}
        \cup {[b EXCEPT !.nonce = v] : v \in TamperNonces \ {b.nonce}}
        \cup {[b EXCEPT !.transactions = v] : v \in TamperedTxs(b.transactions)}

\* C2: on a chain built by mine, changing any one stored field of any
\* non-genesis block to a different value makes valid_chain() return False.
C2_AnyTamperDetected ==
    \A i \in 2..Len(chain) :
        \A tb \in TamperedBlocks(chain, i) :
            valid_chain([chain EXCEPT ![i] = tb]) = FALSE

\* C8: on a chain built by mine, replacing the prev_hash of any
\* non-genesis block by a different digest makes valid_chain() return False.
C8_PrevHashTamperDetected ==
    \A i \in 2..Len(chain) :
        \A d \in OtherDigests(chain, chain[i].prev_hash) :
            valid_chain([chain EXCEPT ![i].prev_hash = d]) = FALSE

\* on a chain of three blocks, a prev_hash written over block 1 leaves
\* its header with a digest that still meets the difficulty prefix, so
\* that only the linkage check can tell
C8_Witness ==
    /\ Len(chain) = 3
    /\ \E d \in OtherDigests(chain, chain[2].prev_hash) :
          startswith(block_hash([chain[2] EXCEPT !.prev_hash = d]),
                     DIFFICULTY_PREFIX)

\* C9: the chain is never empty, so last_block is defined, and chain[0] is
\* the genesis block of the constructor: index 0, prev_hash of zeros,
\* nonce 0, the single transaction network -> satoshi of 50.0, and that
\* transaction's hash as merkle_root.
C9_GenesisStays ==
    /\ Len(chain) >= 1
    /\ chain[1].index = 0
    /\ chain[1].prev_hash = [i \in 1..HexLen |-> 0]
    /\ chain[1].nonce = 0
    /\ chain[1].transactions = <<Transaction("network", "satoshi", 5000)>>
    /\ chain[1].merkle_root
          = tx_hash(Transaction("network", "satoshi", 5000))

\* two blocks were mined on top of the genesis block
C9_Witness == Len(chain) = 3 /\ MineReturnedBlock

----------------------------------------------------------------------------
(* Claims about merkle_root *)

\* digest(left || right) of two hex digests decoded to raw bytes
RefNode(l, r) == sha256(fromhex(l) \o fromhex(r))

\* one reduction of a layer: node j joins elements 2j-1 and 2j, the last
\* element standing in for a missing right one
RefLayer(layer) ==
    [j \in 1..((Len(layer) + 1) \div 2) |->
        RefNode(layer[2 * j - 1],
                IF 2 * j <= Len(layer) THEN layer[2 * j]
                ELSE layer[Len(layer)])]

RECURSIVE RefMerkle(_)
RefMerkle(L) ==
    IF Len(L) = 0 THEN sha256(<<>>)
    ELSE IF Len(L) = 1 THEN L[1]
    ELSE RefMerkle(RefLayer(L))

\* C10: merkle_root agrees with the reference definition on every leaf
\* sequence up to MaxLeaves: [] gives the digest of the empty byte string,
\* [h] gives h, and otherwise layers are reduced pairwise with the last
\* element of an odd layer duplicated; [a,b,c] gives H(H(a||b) || H(c||c)).
C10_MerkleMatchesReference ==
    op = "merkle_root" =>
        /\ root = RefMerkle(leaves)
        /\ Len(leaves) = 0 => root = sha256(<<>>)
        /\ Len(leaves) = 1 => root = leaves[1]
        /\ Len(leaves) = 3 =>
              root = RefNode(RefNode(leaves[1], leaves[2]),
                             RefNode(leaves[3], leaves[3]))

\* a root computed over five leaves, the first and the last different:
\* two layers of odd length are padded on the way
C10_Witness ==
    /\ op = "merkle_root"
    /\ Len(leaves) = 5
    /\ leaves[1] # leaves[5]
    /\ root # <<>>

TxOfDigest(d) == CHOOSE t \in TxInputs : tx_hash(t) = d

\* C19: for a list of odd length 3 or more, merkle_root gives the root it
\* gives for the list with its last element appended once more; so a block
\* with an odd number (3 or more) of transactions keeps passing the Merkle
\* check of valid_chain after its last transaction is appended again.
C19_DuplicatedLastSameRoot ==
    (op = "merkle_root" /\ Len(leaves) >= 3 /\ Len(leaves) % 2 = 1) =>
        LET txs == [i \in 1..Len(leaves) |-> TxOfDigest(leaves[i])]
            more == Append(txs, txs[Len(txs)])
            g == create_genesis(1)
            b == Block(1, 1, block_hash(g), root, 0, txs)
        IN  /\ root = merkle_root(Append(leaves, leaves[Len(leaves)]))
            /\ tx_hashes(more) = Append(leaves, leaves[Len(leaves)])
            /\ root_ok(<<g, b>>, 1)
            /\ root_ok(<<g, [b EXCEPT !.transactions = more]>>, 1)

\* a root over five leaves whose last two differ, equal to the root over
\* the six leaves that repeat the last one
C19_Witness ==
    /\ op = "merkle_root"
    /\ Len(leaves) = 5
    /\ leaves[4] # leaves[5]
    /\ Append(leaves, leaves[5]) # leaves
    /\ root = merkle_root(Append(leaves, leaves[5]))

\* C14: for every chain content, mined or not, valid_chain() returns True
\* exactly when every block after the first links to the header digest of
\* the block before it, has a header digest that starts with the prefix,
\* and stores the Merkle root of its own transactions; a chain of one block
\* is always valid.
C14_ValidChainIffAllChecks ==
    op = "valid_chain" =>
        /\ ret.value =
              (\A i \in 2..Len(chain) :
                  /\ chain[i].prev_hash = block_hash(chain[i - 1])
                  /\ startswith(block_hash(chain[i]), DIFFICULTY_PREFIX)
                  /\ merkle_root(tx_hashes(chain[i].transactions))
                        = chain[i].merkle_root)
        /\ Len(chain) = 1 => ret.value = TRUE

\* three blocks: the second passes the three checks, the third is linked
\* and meets the prefix but its transactions no longer give its root
C14_Witness ==
    /\ op = "valid_chain"
    /\ Len(chain) = 3
    /\ ret.value = FALSE
    /\ valid_chain(SubSeq(chain, 1, 2))
    /\ chain[3].prev_hash = block_hash(chain[2])
    /\ startswith(block_hash(chain[3]), DIFFICULTY_PREFIX)
    /\ merkle_root(tx_hashes(chain[3].transactions)) # chain[3].merkle_root

\* transaction sequences to store in the genesis block
GenesisTxsInputs ==
    {<<>>,
     <<Transaction("network", "satoshi", GENESIS_AMOUNT)>>,
     <<Transaction("network", "miner1", REWARD)>>,
     <<Transaction("Bob", "Alice", -70), Transaction("Carol", "Dave", 0)>>}

\* C20: valid_chain never inspects the transactions of the genesis block:
\* storing any other sequence in chain[0].transactions, the header left as
\* it is, does not change the result, for chains of every length.
C20_GenesisTransactionsIgnored ==
    (op = "valid_chain" /\ Len(chain) >= 1) =>
        \A alt \in GenesisTxsInputs :
            valid_chain([chain EXCEPT ![1].transactions = alt]) = ret.value

\* a chain of three blocks found valid although the genesis block holds
\* no transaction and still stores the root of its original one
C20_Witness ==
    /\ op = "valid_chain"
    /\ ret.value = TRUE
    /\ Len(chain) = 3
    /\ chain[1].transactions = <<>>
    /\ chain[1].merkle_root # merkle_root(<<>>)

\* C17: when add_transaction runs while mine is in progress, after the
\* candidate's transactions were collected and before the mempool is
\* cleared, a successful mine still leaves the mempool empty: the late
\* transaction is removed although the appended block does not hold it
\* (the block holds the reward and the mempool as it was at the start).
C17_LateTransactionDropped ==
    [][(call # None /\ call' = None /\ ret' # None) =>
          (/\ mem_pool' = <<>>
           /\ chain' = Append(chain, ret'.block)
           /\ ret'.block.transactions = call.block.transactions
           /\ Tail(call.block.transactions)
                 = SubSeq(mem_pool, 1, Len(call.block.transactions) - 1))]_vars

\* a mine call has just returned its block; two transactions were
\* accepted, the block holds the reward and the first only, and the
\* mempool is empty
C17_Witness ==
    /\ call = None
    /\ op = "mine"
    /\ ret # None
    /\ Len(chain) = 2
    /\ accepted = <<Transaction("Bob", "Alice", -70),
                    Transaction("Carol", "Dave", 0)>>
    /\ chain[2].transactions =
          <<Transaction("network", ret.block.transactions[1].recipient, REWARD),
            accepted[1]>>
    /\ mem_pool = <<>>

\* C18: every mine call terminates; it tests at most max_tries nonces, and
\* with max_tries <= 0 it returns None without testing any nonce.
C18_MineTerminates ==
    /\ [](call # None =>
            /\ call.nonce >= 0
            /\ call.nonce <= (IF call.max_tries > 0 THEN call.max_tries ELSE 0))
    /\ [][(call # None /\ call.max_tries <= 0 /\ call' # call) =>
             (/\ call.nonce = 0
              /\ call' = None
              /\ ret' = None
              /\ chain' = chain
              /\ mem_pool' = mem_pool)]_vars
    /\ (call # None) ~> (call = None)

\* a call that has tested all of its max_tries nonces without a hit, with
\* a transaction that arrived meanwhile
C18_Witness ==
    /\ call # None
    /\ call.max_tries = 4
    /\ call.nonce = call.max_tries
    /\ call.block.nonce = 3
    /\ Len(mem_pool) >= Len(call.block.transactions)

====
